---- MODULE Spec2Model ----
(***************************************************************************)
(* Model of streamlit_app.py ("Convertitore Turni"): the column resolver   *)
(* (_pick_col, _def_map), the row-to-event mapper and calendar serializer  *)
(* (csv_text_to_ics) and the main request flow that runs on "Converti".    *)
(*                                                                         *)
(* Text is a sequence of one-character strings, so that strip(), lower(),  *)
(* str() and date parsing are computed rather than assumed.  A cell of a   *)
(* table is a record [t, s]: t is the Python type read_csv delivered       *)
(* ("nan", "str", "int", "float") and s the text str() gives for it.       *)
(* Not modelled: file names, the upload's temporary copy, the creation     *)
(* stamp of an event, and the help panel.                                  *)
(***************************************************************************)
EXTENDS Integers, Sequences, FiniteSets, TLC

VARIABLES
    run_btn,        \* st.button("Converti")
    uploaded_xlsx,  \* a file was uploaded
    surname_input,  \* st.text_input("Cognome")
    pc,             \* position in the script
    ui,             \* what the page has shown so far, in order
    surname,        \* surname_input.strip().lower()
    raised,         \* history: the exception the conversion script ended with
    df_final,       \* what kind of object df_final is, once obtained
    csv_text,       \* df_final.to_csv(index=False), re-read by csv_text_to_ics
    df,             \* csv_text_to_ics: the frame read back from csv_text
    fm,             \* csv_text_to_ics: the resolved column of every field
    i,              \* csv_text_to_ics: number of rows iterated so far
    events,         \* csv_text_to_ics: cal.events
    outcomes,       \* history: what each iterated row turned into (uid 0: no event)
    next_uid,       \* source of fresh event identifiers
    ics_result,     \* what csv_text_to_ics returned: [doc, n]
    saved           \* the copy of the CSV next to the app

vars == <<run_btn, uploaded_xlsx, surname_input, pc, ui, surname, raised, df_final,
          csv_text, df, fm, i, events, outcomes, next_uid, ics_result, saved>>

(***************************************************************************)
(* Bounds of the model.                                                    *)
(***************************************************************************)
MaxRows == 2
MaxColumns == 2

(***************************************************************************)
(* Python text primitives.                                                 *)
(***************************************************************************)
UpperChars == <<"A","B","C","D","E","F","G","H","I","J","K","L","M","N","O",
                "P","Q","R","S","T","U","V","W","X","Y","Z","Ì">>
LowerChars == <<"a","b","c","d","e","f","g","h","i","j","k","l","m","n","o",
                "p","q","r","s","t","u","v","w","x","y","z","ì">>
DigitChars == <<"0","1","2","3","4","5","6","7","8","9">>

IsSpace(c) == c = " "

LowerChar(c) ==
    IF \E k \in DOMAIN UpperChars : UpperChars[k] = c
    THEN LowerChars[CHOOSE k \in DOMAIN UpperChars : UpperChars[k] = c]
    ELSE c

\* str.lower()
Lower(s) == [k \in DOMAIN s |-> LowerChar(s[k])]

RECURSIVE LStrip(_)
LStrip(s) == IF s # <<>> /\ IsSpace(Head(s)) THEN LStrip(Tail(s)) ELSE s

RECURSIVE RStrip(_)
RStrip(s) ==
    IF s # <<>> /\ IsSpace(s[Len(s)]) THEN RStrip(SubSeq(s, 1, Len(s) - 1)) ELSE s

\* str.strip()
Strip(s) == RStrip(LStrip(s))

\* needle in hay
Contains(hay, needle) ==
    \E k \in 1..(Len(hay) - Len(needle) + 1) :
        SubSeq(hay, k, k + Len(needle) - 1) = needle

IsDigit(c) == \E k \in DOMAIN DigitChars : DigitChars[k] = c
DigitVal(c) == (CHOOSE k \in DOMAIN DigitChars : DigitChars[k] = c) - 1

(***************************************************************************)
(* Cell values, as pandas delivers them.                                   *)
(***************************************************************************)
NaN == [t |-> "nan", s |-> <<"n","a","n">>]
None == [t |-> "none", s |-> <<"N","o","n","e">>]
Str(s) == [t |-> "str", s |-> s]
IntCell(s) == [t |-> "int", s |-> s]
FloatCell(s) == [t |-> "float", s |-> s]

\* pd.isna / pd.notna on a scalar
isna(v) == v.t \in {"nan", "none"}
notna(v) == ~isna(v)

\* str(v)
PyStr(v) == v.s

\* row.get(col, default)
RowGet(row, col, default) == IF col \in DOMAIN row THEN row[col] ELSE default

(***************************************************************************)
(* Timestamps.  A Timestamp is a number of minutes on the proleptic        *)
(* Gregorian calendar; NaT is pandas' missing instant and NoneTs Python's  *)
(* None (a variable that was never assigned an instant).                   *)
(***************************************************************************)
Ts(m) == [k |-> "ts", m |-> m]
NaT == [k |-> "NaT", m |-> 0]
NoneTs == [k |-> "None", m |-> 0]

\* pd.isna / pd.notna on an instant
isnat(x) == x.k # "ts"

IsLeap(y) == (y % 4 = 0 /\ y % 100 # 0) \/ y % 400 = 0

DaysInMonth(m, y) ==
    IF m = 2 THEN (IF IsLeap(y) THEN 29 ELSE 28)
    ELSE IF m \in {4, 6, 9, 11} THEN 30 ELSE 31

RECURSIVE DaysBeforeMonth(_, _)
DaysBeforeMonth(m, y) ==
    IF m = 1 THEN 0 ELSE DaysBeforeMonth(m - 1, y) + DaysInMonth(m - 1, y)

\* date(y, m, d).toordinal()
Ordinal(y, m, d) ==
    LET p == y - 1
    IN  365 * p + (p \div 4) - (p \div 100) + (p \div 400) + DaysBeforeMonth(m, y) + d

MinutesPerDay == 24 * 60

Num2(s, k) == 10 * DigitVal(s[k]) + DigitVal(s[k + 1])
Num4(s, k) == 100 * Num2(s, k) + Num2(s, k + 2)

\* The day a "DD/MM/YYYY" text denotes (as an ordinal), 0 when it denotes none.
\* dayfirst=True is a preference: when the second field cannot be a month but
\* the first can, the parser reads the text month-first.
ParseDate(s) ==
    IF /\ Len(s) = 10
       /\ s[3] = "/" /\ s[6] = "/"
       /\ \A k \in {1, 2, 4, 5, 7, 8, 9, 10} : IsDigit(s[k])
    THEN LET a == Num2(s, 1)
             b == Num2(s, 4)
             y == Num4(s, 7)
         IN  IF y < 1 THEN 0
             ELSE IF b \in 1..12 /\ a \in 1..DaysInMonth(b, y) THEN Ordinal(y, b, a)
             ELSE IF a \in 1..12 /\ b \in 1..DaysInMonth(a, y) THEN Ordinal(y, a, b)
             ELSE 0
    ELSE 0

\* The minute of the day an "HH:MM" text denotes, -1 when it denotes none.
ParseTime(s) ==
    IF /\ Len(s) = 5
       /\ s[3] = ":"
       /\ \A k \in {1, 2, 4, 5} : IsDigit(s[k])
       /\ Num2(s, 1) < 24 /\ Num2(s, 4) < 60
    THEN 60 * Num2(s, 1) + Num2(s, 4)
    ELSE -1

\* pd.to_datetime(text, dayfirst=True, errors="coerce") for the two shapes of
\* text the mapper builds: a date, or a date, one blank and a time of day.
to_datetime(s) ==
    IF Len(s) = 10
    THEN IF ParseDate(s) = 0 THEN NaT ELSE Ts(ParseDate(s) * MinutesPerDay)
    ELSE IF Len(s) = 16 /\ s[11] = " "
    THEN LET d == ParseDate(SubSeq(s, 1, 10))
             t == ParseTime(SubSeq(s, 12, 16))
         IN  IF d = 0 \/ t < 0 THEN NaT ELSE Ts(d * MinutesPerDay + t)
    ELSE NaT

\* pd.to_datetime(cell, dayfirst=True, errors="coerce") on a cell of the table
to_datetime_cell(v) == IF isna(v) THEN NaT ELSE to_datetime(PyStr(v))

\* Timestamp.date(): the instant floored to its day
DateOf(x) == Ts((x.m \div MinutesPerDay) * MinutesPerDay)

\* x + pd.Timedelta(minutes=n)
PlusMinutes(x, n) == Ts(x.m + n)

(***************************************************************************)
(* Column resolver.                                                        *)
(***************************************************************************)
Fields == {"subject", "start_date", "start_time", "end_date", "end_time",
           "allday", "description", "location"}

_def_map ==
    [subject     |-> <<"Subject", "Oggetto", "Titolo">>,
     start_date  |-> <<"Start Date", "Data Inizio", "Data inizio", "Data">>,
     start_time  |-> <<"Start Time", "Ora Inizio", "Ora inizio", "Ora">>,
     end_date    |-> <<"End Date", "Data Fine", "Data fine">>,
     end_time    |-> <<"End Time", "Ora Fine", "Ora fine">>,
     allday      |-> <<"All Day Event", "Evento giornaliero", "Giornata intera">>,
     description |-> <<"Description", "Descrizione", "Note">>,
     location    |-> <<"Location", "Luogo", "Sede">>]

_truthy == {<<"t","r","u","e">>, <<"1">>, <<"y","e","s">>, <<"y">>,
            <<"s","i">>, <<"s","ì">>, <<"x">>}

\* The value _pick_col returns when no candidate is a column (Python's None).
NoCol == "None"

\* Variant: the last candidate that is a column wins.
RECURSIVE _pick_col_last(_, _)
_pick_col_last(columns, candidates) ==
    IF candidates = <<>> THEN NoCol
    ELSE IF candidates[Len(candidates)] \in columns THEN candidates[Len(candidates)]
    ELSE _pick_col_last(columns, SubSeq(candidates, 1, Len(candidates) - 1))

\* for c in candidates: if c in df.columns: return c / return None
RECURSIVE _pick_col(_, _)
_pick_col(columns, candidates) ==
    IF candidates = <<>> THEN NoCol
    ELSE IF Head(candidates) \in columns THEN Head(candidates)
    ELSE _pick_col(columns, Tail(candidates))

\* x or default, for a column name
OrElse(x, default) == IF x = NoCol THEN default ELSE x

\* The eight resolutions at the head of csv_text_to_ics.
ResolveColumns(columns) ==
    [subject     |-> OrElse(_pick_col(columns, _def_map["subject"]), "Subject"),
     start_date  |-> OrElse(_pick_col(columns, _def_map["start_date"]), "Start Date"),
     start_time  |-> OrElse(_pick_col(columns, _def_map["start_time"]), "Start Time"),
     end_date    |-> OrElse(_pick_col(columns, _def_map["end_date"]), "End Date"),
     end_time    |-> OrElse(_pick_col(columns, _def_map["end_time"]), "End Time"),
     allday      |-> _pick_col(columns, _def_map["allday"]),
     description |-> _pick_col(columns, _def_map["description"]),
     location    |-> _pick_col(columns, _def_map["location"])]

(***************************************************************************)
(* Event mapper: one iteration of the loop of csv_text_to_ics.             *)
(***************************************************************************)
Evento == <<"E","v","e","n","t","o">>

\* An optional text attribute of an event.
NoText == [set |-> FALSE, s |-> <<>>]
Text(s) == [set |-> TRUE, s |-> s]

\* name = str(row.get(subj, "Evento")).strip() or "Evento"
EventName(row, f) ==
    LET n == Strip(PyStr(RowGet(row, f.subject, Str(Evento))))
    IN  IF n = <<>> THEN Evento ELSE n

\* is_all_day, as the flag column decides it
IsAllDayFlag(row, f) ==
    /\ f.allday # NoCol
    /\ notna(RowGet(row, f.allday, None))
    /\ Lower(Strip(PyStr(RowGet(row, f.allday, None)))) \in _truthy

start_date_val(row, f) == RowGet(row, f.start_date, None)
end_date_val(row, f) == RowGet(row, f.end_date, start_date_val(row, f))
start_time_val(row, f) == RowGet(row, f.start_time, None)
end_time_val(row, f) == RowGet(row, f.end_time, None)

\* Variant: one missing time is enough for the all-day path.
TakesAllDayPath_either(row, f) ==
    \/ IsAllDayFlag(row, f)
    \/ isna(start_time_val(row, f)) \/ isna(end_time_val(row, f))

\* if is_all_day or (pd.isna(start_time_val) and pd.isna(end_time_val))
TakesAllDayPath(row, f) ==
    \/ IsAllDayFlag(row, f)
    \/ isna(start_time_val(row, f)) /\ isna(end_time_val(row, f))

\* f"{date} {time}"
DateTimeText(d, t) == PyStr(d) \o <<" ">> \o t

\* pd.notna(v) and str(v).strip()
NotBlank(v) == notna(v) /\ Strip(PyStr(v)) # <<>>

\* Variant: an Event that accepts any end.
EndSetterNeverRaises(begin, end) == FALSE

\* ics.Event: assigning an end that lies before the begin raises ValueError.
EndSetterRaises(begin, end) == end.m < begin.m

\* ics.Event.make_all_day: the event spans whole days, and its end is the
\* day after the last day it covers.
make_all_day_end(begin_day, end_day) == PlusMinutes(end_day, MinutesPerDay)

\* The event of a row, before it gets its identifier and its stamp.
Skip == [kind |-> "skip", name |-> <<>>, begin |-> 0, end |-> 0,
         all_day |-> FALSE, description |-> NoText, location |-> NoText]
Raised == [Skip EXCEPT !.kind = "raise"]
Made(name, begin, end, all_day, row, f) ==
    [kind        |-> "event",
     name        |-> name,
     begin       |-> begin.m,
     end         |-> end.m,
     all_day     |-> all_day,
     description |-> IF f.description # NoCol /\ notna(RowGet(row, f.description, None))
                     THEN Text(PyStr(RowGet(row, f.description, None))) ELSE NoText,
     location    |-> IF f.location # NoCol /\ notna(RowGet(row, f.location, None))
                     THEN Text(PyStr(RowGet(row, f.location, None))) ELSE NoText]

AllDayPath(row, f) ==
    LET sdv   == start_date_val(row, f)
        edv   == end_date_val(row, f)
        begin == to_datetime_cell(sdv)
        end0  == to_datetime_cell(IF notna(edv) THEN edv ELSE sdv)
        end   == IF isnat(end0) THEN begin ELSE end0
    IN  IF isnat(begin) THEN Skip
        ELSE IF EndSetterRaises(DateOf(begin), DateOf(end)) THEN Raised
        ELSE Made(EventName(row, f), DateOf(begin),
                  make_all_day_end(DateOf(begin), DateOf(end)), TRUE, row, f)

TimedBegin(row, f) ==
    LET sdv == start_date_val(row, f)
        stv == start_time_val(row, f)
    IN  IF notna(sdv)
        THEN IF NotBlank(stv)
             THEN to_datetime(DateTimeText(sdv, PyStr(stv)))
             ELSE to_datetime(DateTimeText(sdv, <<"0","0",":","0","0">>))
        ELSE NoneTs

\* Variant: a missing end time is read as midnight of the end date.
TimedEnd_midnight(row, f, begin) ==
    LET edv == end_date_val(row, f)
        etv == end_time_val(row, f)
    IN  IF notna(edv)
        THEN IF NotBlank(etv)
             THEN to_datetime(DateTimeText(edv, PyStr(etv)))
             ELSE to_datetime(DateTimeText(edv, <<"0","0",":","0","0">>))
        ELSE NoneTs

TimedEnd(row, f, begin) ==
    LET edv == end_date_val(row, f)
        etv == end_time_val(row, f)
    IN  IF notna(edv)
        THEN IF NotBlank(etv)
             THEN to_datetime(DateTimeText(edv, PyStr(etv)))
             ELSE IF ~isnat(begin) THEN PlusMinutes(begin, 60)
             ELSE NoneTs
        ELSE NoneTs

TimedPath(row, f) ==
    LET begin == TimedBegin(row, f)
        end0  == TimedEnd(row, f, begin)
        end   == IF isnat(end0) THEN PlusMinutes(begin, 60) ELSE end0
    IN  IF isnat(begin) THEN Skip
        ELSE IF EndSetterRaises(begin, end) THEN Raised
        ELSE Made(EventName(row, f), begin, end, FALSE, row, f)

\* The body of the try block for one row.
MapRow(row, f) ==
    IF TakesAllDayPath(row, f) THEN AllDayPath(row, f) ELSE TimedPath(row, f)

(***************************************************************************)
(* pd.read_csv.  A CSV text is [columns, rows]: the header's names and,    *)
(* per data line, the text of every field (the empty text for a missing    *)
(* field).  Reading infers a type per column: a column whose present       *)
(* fields are all whole numbers is int64, or float64 when a field is       *)
(* missing; any other column keeps its texts.  Boolean inference is left   *)
(* out: no modelled input has a column of True/False.                      *)
(***************************************************************************)
NaTexts == {<<>>, <<"N","A">>, <<"N","/","A">>, <<"n","/","a">>, <<"N","a","N">>,
            <<"n","a","n">>, <<"N","U","L","L">>, <<"n","u","l","l">>,
            <<"#","N","/","A">>, <<"#","N","A">>, <<"<","N","A",">">>,
            <<"-","N","a","N">>, <<"-","n","a","n">>}

IsWholeNumber(s) == s # <<>> /\ \A k \in DOMAIN s : IsDigit(s[k])

RECURSIVE DropLeadingZeros(_)
DropLeadingZeros(s) ==
    IF Len(s) > 1 /\ Head(s) = "0" THEN DropLeadingZeros(Tail(s)) ELSE s

ColumnType(csv, c) ==
    LET present == {r \in DOMAIN csv.rows : csv.rows[r][c] \notin NaTexts}
    IN  IF \A r \in present : IsWholeNumber(csv.rows[r][c])
        THEN (IF present = DOMAIN csv.rows THEN "int" ELSE "float")
        ELSE "object"

ReadCell(csv, r, c) ==
    LET text == csv.rows[r][c]
    IN  IF text \in NaTexts THEN NaN
        ELSE IF ColumnType(csv, c) = "int" THEN IntCell(DropLeadingZeros(text))
        ELSE IF ColumnType(csv, c) = "float"
             THEN FloatCell(DropLeadingZeros(text) \o <<".", "0">>)
        ELSE Str(text)

\* Variant: a table without data lines is refused too.
read_csv_raises_empty(csv) == csv.columns = {} \/ csv.rows = <<>>

\* A text without a header line cannot be read: read_csv raises EmptyDataError.
read_csv_raises(csv) == csv.columns = {}

read_csv(csv) ==
    [columns |-> csv.columns,
     rows    |-> [r \in DOMAIN csv.rows |-> [c \in csv.columns |-> ReadCell(csv, r, c)]]]

NoFrame == [columns |-> {}, rows |-> <<>>]

(***************************************************************************)
(* Calendar serializer: str(cal).  A document is a sequence of content     *)
(* lines [k, n, s]: the line's name, and its value as a number or a text.  *)
(***************************************************************************)
Line(k, n, s) == [k |-> k, n |-> n, s |-> s]

Header == << Line("BEGIN:VCALENDAR", 0, <<>>),
             Line("VERSION", 0, <<"2",".","0">>),
             Line("PRODID", 0, <<"i","c","s",".","p","y">>) >>

Trailer == << Line("END:VCALENDAR", 0, <<>>) >>

\* An all-day event is written with dates, a timed one with instants.
EventBlock(ev) ==
    << Line("BEGIN:VEVENT", 0, <<>>) >>
    \o (IF ev.description.set THEN << Line("DESCRIPTION", 0, ev.description.s) >> ELSE <<>>)
    \o (IF ev.all_day
        THEN << Line("DTEND;VALUE=DATE", ev.end \div MinutesPerDay, <<>>) >>
        ELSE << Line("DTEND", ev.end, <<>>) >>)
    \o (IF ev.location.set THEN << Line("LOCATION", 0, ev.location.s) >> ELSE <<>>)
    \o (IF ev.all_day
        THEN << Line("DTSTART;VALUE=DATE", ev.begin \div MinutesPerDay, <<>>) >>
        ELSE << Line("DTSTART", ev.begin, <<>>) >>)
    \o << Line("SUMMARY", 0, ev.name),
          Line("UID", ev.uid, <<>>),
          Line("END:VEVENT", 0, <<>>) >>

RECURSIVE EventBlocks(_)
EventBlocks(order) ==
    IF order = <<>> THEN <<>> ELSE EventBlock(Head(order)) \o EventBlocks(Tail(order))

Serialize(order) == Header \o EventBlocks(order) \o Trailer

\* cal.events is a set: the order its events are written in is not fixed.
Orders(S) ==
    {o \in [1..Cardinality(S) -> S] : \A a, b \in 1..Cardinality(S) : a # b => o[a] # o[b]}

NoResult == [doc |-> <<>>, n |-> 0]

(***************************************************************************)
(* Inputs of the model.                                                    *)
(***************************************************************************)
D0103 == <<"0","1","/","0","3","/","2","0","2","4">>
D0203 == <<"0","2","/","0","3","/","2","0","2","4">>
T0700 == <<"0","7",":","0","0">>
T0800 == <<"0","8",":","0","0">>
T1600 == <<"1","6",":","0","0">>
Junk == <<"x","x">>
Blank == <<" ">>

SurnameInputs == { <<>>, <<" ", " ">>, <<" ","R","o","s","s","i">> }

\* Messages of the exceptions the conversion script may end with.
Messages == { <<"n","a","m","e"," ","'","m","o","r","n","i","n","g","'">>,
              <<"M","o","r","n","i","n","g","_","s","h","i","f","t">>,
              <<"n","a","m","e"," ","'","m","o","r","n","'">>,
              <<"d","f","_","f","i","n","a","l">> }
ExceptionTypes == {"NameError", "KeyError"}

\* Every row over the columns of D, a function from column to the set of
\* texts a field of that column may hold.
RECURSIVE RowsOf(_)
RowsOf(D) ==
    IF DOMAIN D = {} THEN { [c \in {} |-> <<>>] }
    ELSE LET c    == CHOOSE x \in DOMAIN D : TRUE
             rest == [x \in DOMAIN D \ {c} |-> D[x]]
         IN  { (c :> v) @@ r : v \in D[c], r \in RowsOf(rest) }

RECURSIVE SeqsOf(_, _)
SeqsOf(S, n) ==
    IF n = 0 THEN { <<>> } ELSE { <<x>> \o r : x \in S, r \in SeqsOf(S, n - 1) }

CsvOver(D, lens) ==
    { [columns |-> DOMAIN D, rows |-> rs] : rs \in UNION { SeqsOf(RowsOf(D), n) : n \in lens } }

\* A schedule with Italian headers and no end date, of up to MaxRows rows.
ShiftColumns ==
    ("Titolo"   :> { <<>>, <<"A">> }) @@
    ("Data"     :> { Junk, D0203 }) @@
    ("Ora"      :> { <<>>, T0800 }) @@
    ("Ora Fine" :> { <<>>, T0700, T1600 })

\* One row with every field of the export format.
FullColumns ==
    ("Subject"       :> { <<>>, <<" ", " ">>, <<" ","A"," ">>, <<"5">> }) @@
    ("Start Date"    :> { <<>>, Junk, D0203 }) @@
    ("Start Time"    :> { <<>>, Blank, Junk, T0800 }) @@
    ("End Date"      :> { <<>>, Junk, D0103, D0203 }) @@
    ("End Time"      :> { <<>>, Junk, T0700, T1600 }) @@
    ("All Day Event" :> { <<>>, <<"n","o">>, <<" ","S","Ì"," ">>, <<"1">> }) @@
    ("Description"   :> { <<>>, <<"d">> }) @@
    ("Location"      :> { <<>>, <<"l">> })

\* A table with start columns only, under their second aliases.
StartColumns ==
    ("Data Inizio" :> { Junk, D0203 }) @@
    ("Ora Inizio"  :> { <<>>, T0800 })

Unreadable == [columns |-> {}, rows |-> <<>>]

CsvTexts ==
    { Unreadable }
    \cup CsvOver(ShiftColumns, 0..MaxRows)
    \cup CsvOver(FullColumns, {1})
    \cup CsvOver(StartColumns, {0, 1})

(***************************************************************************)
(* The page: what has been shown, in order.                                *)
(***************************************************************************)
Shown(w, id, n) == [w |-> w, id |-> id, n |-> n]

NoFieldMap == [f \in Fields |-> NoCol]
NoException == [exc |-> "none", msg |-> <<>>]

Init ==
    /\ run_btn \in BOOLEAN
    /\ uploaded_xlsx \in BOOLEAN
    /\ surname_input \in SurnameInputs
    /\ pc = "start"
    /\ ui = <<>>
    /\ surname = <<>>
    /\ raised = NoException
    /\ df_final = "unset"
    /\ csv_text = Unreadable
    /\ df = NoFrame
    /\ fm = NoFieldMap
    /\ i = 0
    /\ events = {}
    /\ outcomes = <<>>
    /\ next_uid = 1
    /\ ics_result = NoResult
    /\ saved = "no"

inputs == <<run_btn, uploaded_xlsx, surname_input, raised>>
ics_vars == <<csv_text, df, fm, i, events, outcomes, next_uid, ics_result>>

\* if run_btn: (not pressed: the script shows the form and the help panel only)
NotPressed ==
    /\ pc = "start"
    /\ ~run_btn
    /\ pc' = "done"
    /\ UNCHANGED <<inputs, ui, surname, df_final, ics_vars, saved>>

\* The two input checks and the normalisation of the surname.  st.stop() ends
\* the run where it is called: what it raises is no Exception, so the
\* "except Exception" around the main block does not see it.
CheckInputs ==
    /\ pc = "start"
    /\ run_btn
    /\ IF ~uploaded_xlsx
       THEN /\ ui' = Append(ui, Shown("error", "no_upload", 0))
            /\ pc' = "stopped"
            /\ UNCHANGED surname
       ELSE IF Strip(surname_input) = <<>>
       THEN /\ ui' = Append(ui, Shown("error", "no_surname", 0))
            /\ pc' = "stopped"
            /\ UNCHANGED surname
       ELSE /\ surname' = Lower(Strip(surname_input))
            /\ pc' = "script"
            /\ UNCHANGED ui
    /\ UNCHANGED <<inputs, df_final, ics_vars, saved>>

\* Variant: the message is searched as it is, without lower().
IsSurnameNotFound_cased(exc, msg) ==
    /\ exc = "NameError"
    /\ Contains(msg, <<"m","o","r","n","i","n","g">>)

\* except NameError as e: if "morning" in str(e).lower()
IsSurnameNotFound(exc, msg) ==
    /\ exc = "NameError"
    /\ Contains(Lower(msg), <<"m","o","r","n","i","n","g">>)

\* except Exception as e: st.exception(e); st.stop()
GenericFailure(shown) ==
    /\ ui' = Append(shown, Shown("exception", "traceback", 0))
    /\ pc' = "stopped"

\* conversione_turni.py is missing: the uploaded sheet itself becomes df_final.
ReadExcel ==
    /\ pc = "script"
    /\ \E ok \in BOOLEAN :
        LET warned == Append(ui, Shown("warning", "script_missing", 0))
        IN  IF ok
            THEN /\ df_final' = "DataFrame"
                 /\ ui' = warned
                 /\ pc' = "coerce"
            ELSE /\ GenericFailure(warned)
                 /\ UNCHANGED df_final
    /\ UNCHANGED <<inputs, surname, ics_vars, saved>>

\* run_conversion_script returns the script's df_final, whatever it is.
RunScript ==
    /\ pc = "script"
    /\ \E kind \in {"DataFrame", "convertible", "unconvertible"} :
        df_final' = kind
    /\ pc' = "coerce"
    /\ UNCHANGED <<inputs, ui, surname, ics_vars, saved>>

\* run_conversion_script raises.
RunScriptRaises ==
    /\ pc = "script"
    /\ \E exc \in ExceptionTypes, msg \in Messages :
        /\ raised' = [exc |-> exc, msg |-> msg]
        /\ IF IsSurnameNotFound(exc, msg)
           THEN /\ ui' = Append(ui, Shown("error", "surname_not_found", 0))
                /\ pc' = "stopped"
           ELSE GenericFailure(ui)
    /\ UNCHANGED <<run_btn, uploaded_xlsx, surname_input, surname, df_final,
                   ics_vars, saved>>

\* if not isinstance(df_final, pd.DataFrame): df_final = pd.DataFrame(df_final)
Coerce ==
    /\ pc = "coerce"
    /\ IF df_final = "unconvertible"
       THEN /\ ui' = Append(ui, Shown("error", "not_a_dataframe", 0))
            /\ pc' = "stopped"
            /\ UNCHANGED df_final
       ELSE /\ df_final' = "DataFrame"
            /\ pc' = "offer_csv"
            /\ UNCHANGED ui
    /\ UNCHANGED <<inputs, surname, ics_vars, saved>>

\* The success message, the table, and the CSV download.
OfferCsv ==
    /\ pc = "offer_csv"
    /\ \E text \in CsvTexts : csv_text' = text
    /\ ui' = ui \o << Shown("success", "done", 0),
                      Shown("dataframe", "df_final", 0),
                      Shown("download_button", "csv", 0) >>
    /\ pc' = "ics"
    /\ UNCHANGED <<inputs, surname, df_final, df, fm, i, events, outcomes,
                   next_uid, ics_result, saved>>

\* Variant: a failure of the ICS block ends the request like any other failure.
IcsFailed_abort == GenericFailure(ui)

\* except Exception as e: st.warning(...) around the ICS block; the script goes on.
IcsFailed ==
    /\ ui' = Append(ui, Shown("warning", "ics_failed", 0))
    /\ pc' = "save"

\* csv_text_to_ics, up to its loop.
IcsReadCsv ==
    /\ pc = "ics"
    /\ IF read_csv_raises(csv_text)
       THEN /\ IcsFailed
            /\ UNCHANGED <<df, fm>>
       ELSE /\ df' = read_csv(csv_text)
            /\ fm' = ResolveColumns(csv_text.columns)
            /\ pc' = "ics_loop"
            /\ UNCHANGED ui
    /\ UNCHANGED <<inputs, surname, df_final, csv_text, i, events, outcomes,
                   next_uid, ics_result, saved>>

\* Variant: every event gets the same identifier.
uid_gen_fixed(n) == 1

\* Event(name=name): every event gets an identifier of its own.
uid_gen(n) == n

\* cal.events.add(ev): two events are the same element when their uid is.
AddEvent(S, ev) == IF \E e \in S : e.uid = ev.uid THEN S ELSE S \cup {ev}

\* Variant: a row that yields no event ends the loop.
AfterRow_break(out, k, n) == IF out.kind = "event" THEN k + 1 ELSE n

\* "continue", in the loop body and in "except Exception": the row after
\* row i of n is iterated next, whatever row i turned into.
AfterRow(out, k, n) == k + 1

\* One iteration of "for _, row in df.iterrows()".
IcsRow ==
    /\ pc = "ics_loop"
    /\ i < Len(df.rows)
    /\ LET out == MapRow(df.rows[i + 1], fm)
           uid == uid_gen(next_uid)
       IN  /\ outcomes' = Append(outcomes, [row |-> i + 1, out |-> out,
                                            uid |-> IF out.kind = "event" THEN uid ELSE 0])
           /\ IF out.kind = "event"
              THEN /\ events' = AddEvent(events,
                                         [name |-> out.name, begin |-> out.begin,
                                          end |-> out.end, all_day |-> out.all_day,
                                          description |-> out.description,
                                          location |-> out.location,
                                          uid |-> uid])
                   /\ next_uid' = next_uid + 1
              ELSE UNCHANGED <<events, next_uid>>
           /\ i' = AfterRow(out, i, Len(df.rows))
    /\ UNCHANGED <<inputs, pc, ui, surname, df_final, csv_text, df, fm,
                   ics_result, saved>>

\* return str(cal), len(cal.events); then the ICS download and its caption.
IcsReturn ==
    /\ pc = "ics_loop"
    /\ i = Len(df.rows)
    /\ \E order \in Orders(events) :
        ics_result' = [doc |-> Serialize(order), n |-> Cardinality(events)]
    /\ ui' = ui \o << Shown("download_button", "ics", 0),
                      Shown("caption", "n_events", Cardinality(events)) >>
               \o (IF Cardinality(events) = 0
                   THEN << Shown("warning", "no_events", 0) >> ELSE <<>>)
    /\ pc' = "save"
    /\ UNCHANGED <<inputs, surname, df_final, csv_text, df, fm, i, events,
                   outcomes, next_uid, saved>>

\* save_path_csv.write_text(csv_text); a failure to write is ignored.
SaveCsv ==
    /\ pc = "save"
    /\ \E ok \in BOOLEAN :
        IF ok
        THEN /\ saved' = "written"
             /\ ui' = Append(ui, Shown("caption", "csv_saved", 0))
        ELSE /\ saved' = "failed"
             /\ UNCHANGED ui
    /\ pc' = "done"
    /\ UNCHANGED <<inputs, surname, df_final, ics_vars>>

Next ==
    \/ NotPressed
    \/ CheckInputs
    \/ ReadExcel
    \/ RunScript
    \/ RunScriptRaises
    \/ Coerce
    \/ OfferCsv
    \/ IcsReadCsv
    \/ IcsRow
    \/ IcsReturn
    \/ SaveCsv

Spec == Init /\ [][Next]_vars

(***************************************************************************)
(* The column resolver on its own: csv_text_to_ics on tables without data  *)
(* lines, over every set of up to MaxColumns columns drawn from the        *)
(* aliases of _def_map and one foreign name.                               *)
(***************************************************************************)
RECURSIVE SubsetsUpTo(_, _)
SubsetsUpTo(S, n) ==
    IF n = 0 THEN { {} }
    ELSE LET P == SubsetsUpTo(S, n - 1) IN P \cup { q \cup {x} : q \in P, x \in S }

AllAliases ==
    UNION { { _def_map[f][k] : k \in DOMAIN _def_map[f] } : f \in Fields } \cup { "Turno" }

InitResolve ==
    /\ run_btn = TRUE
    /\ uploaded_xlsx = TRUE
    /\ surname_input = <<" ","R","o","s","s","i">>
    /\ pc = "ics"
    /\ ui = << Shown("success", "done", 0),
               Shown("dataframe", "df_final", 0),
               Shown("download_button", "csv", 0) >>
    /\ surname = Lower(Strip(surname_input))
    /\ raised = NoException
    /\ df_final = "DataFrame"
    /\ csv_text \in { [columns |-> cs, rows |-> <<>>] : cs \in SubsetsUpTo(AllAliases, MaxColumns) }
    /\ df = NoFrame
    /\ fm = NoFieldMap
    /\ i = 0
    /\ events = {}
    /\ outcomes = <<>>
    /\ next_uid = 1
    /\ ics_result = NoResult
    /\ saved = "no"

NextResolve ==
    \/ IcsReadCsv
    \/ IcsReturn
    \/ SaveCsv

SpecResolve == InitResolve /\ [][NextResolve]_vars

(***************************************************************************)
(* Properties.  They are stated over the frame as read (df), the resolved  *)
(* columns (fm) and the history of the loop (outcomes).                    *)
(***************************************************************************)
Absent(k, col) == col \notin df.columns \/ df.rows[k][col].t = "nan"
IsEvent(k) == outcomes[k].out.kind = "event"
HasShown(w, id) == \E j \in DOMAIN ui : ui[j].w = w /\ ui[j].id = id
Returned == ics_result.doc # <<>>

TruthyTokens == { <<"t","r","u","e">>, <<"1">>, <<"y","e","s">>, <<"y">>,
                  <<"s","i">>, <<"s","ì">>, <<"x">> }

FlagTruthy(k) ==
    /\ \E j \in DOMAIN _def_map["allday"] : _def_map["allday"][j] \in df.columns
    /\ ~Absent(k, fm.allday)
    /\ Lower(Strip(df.rows[k][fm.allday].s)) \in TruthyTokens

NoTimes(k) == Absent(k, fm.start_time) /\ Absent(k, fm.end_time)

\* C1: every row that yields an event yields an all-day event if and only if
\* its all-day flag is a truthy token (trimmed, lower-cased) or both its start
\* time and its end time are absent; the event in the collection agrees.
C1_AllDayIff ==
    \A k \in DOMAIN outcomes :
        IsEvent(k) =>
            /\ outcomes[k].out.all_day <=> (FlagTruthy(k) \/ NoTimes(k))
            /\ \A e \in events :
                e.uid = outcomes[k].uid => (e.all_day <=> (FlagTruthy(k) \/ NoTimes(k)))

\* A row with a truthy flag and both times populated became an all-day event.
C1_Witness ==
    \E k \in DOMAIN outcomes :
        /\ IsEvent(k) /\ outcomes[k].out.all_day
        /\ FlagTruthy(k)
        /\ ~Absent(k, fm.start_time) /\ ~Absent(k, fm.end_time)

StartInstant(k) ==
    to_datetime(df.rows[k][fm.start_date].s \o <<" ">> \o df.rows[k][fm.start_time].s)

TimedStartOnly(k) ==
    /\ ~FlagTruthy(k)
    /\ ~Absent(k, fm.start_date) /\ ~Absent(k, fm.start_time)
    /\ StartInstant(k).k = "ts"
    /\ Absent(k, fm.end_time)

\* C2: a timed row with a parseable start date and start time and no end time
\* yields an event that ends exactly 60 minutes after it begins, whatever its
\* end date is.
C2_EndIsBeginPlus60 ==
    \A k \in DOMAIN outcomes :
        TimedStartOnly(k) =>
            /\ IsEvent(k)
            /\ ~outcomes[k].out.all_day
            /\ outcomes[k].out.begin = StartInstant(k).m
            /\ outcomes[k].out.end = outcomes[k].out.begin + 60

\* Such a row whose end date is present and cannot be parsed.
C2_Witness ==
    \E k \in DOMAIN outcomes :
        /\ TimedStartOnly(k)
        /\ ~Absent(k, fm.end_date)
        /\ ParseDate(df.rows[k][fm.end_date].s) = 0

BadStart(k) == Absent(k, fm.start_date) \/ ParseDate(df.rows[k][fm.start_date].s) = 0

EventOutcomes == { k \in DOMAIN outcomes : IsEvent(k) }

C4_CountMatches ==
    Returned =>
        /\ ics_result.n = Cardinality({ j \in DOMAIN ics_result.doc :
                                          ics_result.doc[j].k = "BEGIN:VEVENT" })
        /\ ics_result.n = Cardinality(events)
        /\ ics_result.n = Cardinality(EventOutcomes)
        /\ Len(outcomes) = Len(df.rows)

\* Two equal rows were returned as two events.
C4_Witness ==
    /\ Returned
    /\ ics_result.n = 2
    /\ Len(outcomes) = 2
    /\ outcomes[1].out = outcomes[2].out

\* C5: the name of every event is the trimmed text of the subject cell, and
\* the placeholder when the subject column is absent or the cell is missing,
\* blank, or not a string.  (The placeholder of the code is "Evento".)
C5_NameOrPlaceholder ==
    \A k \in DOMAIN outcomes :
        IsEvent(k) =>
            outcomes[k].out.name =
                IF \/ Absent(k, fm.subject)
                   \/ df.rows[k][fm.subject].t # "str"
                   \/ Strip(df.rows[k][fm.subject].s) = <<>>
                THEN Evento
                ELSE Strip(df.rows[k][fm.subject].s)

Canonical ==
    [subject |-> "Subject", start_date |-> "Start Date", start_time |-> "Start Time",
     end_date |-> "End Date", end_time |-> "End Time",
     allday |-> NoCol, description |-> NoCol, location |-> NoCol]

\* C6: once the columns are resolved, every field is resolved to the earliest
\* of its aliases that is a column, and, when none is, to its canonical name
\* (the five primary fields) or to None (all-day, description, location).
C6_FirstAliasWins ==
    (pc # "ics" /\ csv_text.columns # {}) =>
        \A f \in Fields :
            LET cand    == _def_map[f]
                present == { j \in DOMAIN cand : cand[j] \in csv_text.columns }
            IN  IF present = {}
                THEN fm[f] = Canonical[f]
                ELSE \E j \in present : /\ \A h \in present : j <= h
                                        /\ fm[f] = cand[j]

\* Two aliases of the start date are columns and the earlier one was taken.
C6_Witness ==
    /\ pc # "ics"
    /\ {"Data", "Data Inizio"} \subseteq csv_text.columns
    /\ fm.start_date = "Data Inizio"
    /\ fm.subject = "Subject"
    /\ fm.location = NoCol

EndInstant(k) ==
    to_datetime(df.rows[k][fm.end_date].s \o <<" ">> \o df.rows[k][fm.end_time].s)

TimedEndBeforeBegin(k) ==
    /\ ~FlagTruthy(k)
    /\ ~Absent(k, fm.start_date) /\ ~Absent(k, fm.start_time)
    /\ ~Absent(k, fm.end_date) /\ ~Absent(k, fm.end_time)
    /\ StartInstant(k).k = "ts" /\ EndInstant(k).k = "ts"
    /\ EndInstant(k).m < StartInstant(k).m

AllDayEndBeforeBegin(k) ==
    /\ FlagTruthy(k) \/ NoTimes(k)
    /\ ~Absent(k, fm.start_date) /\ ~Absent(k, fm.end_date)
    /\ ParseDate(df.rows[k][fm.start_date].s) # 0
    /\ ParseDate(df.rows[k][fm.end_date].s) # 0
    /\ ParseDate(df.rows[k][fm.end_date].s) < ParseDate(df.rows[k][fm.start_date].s)

\* C8, as stated: a row whose resolved end precedes its begin yields one event
\* carrying exactly those two instants.
C8_KeepsEndBeforeBegin ==
    \A k \in DOMAIN outcomes :
        TimedEndBeforeBegin(k) =>
            /\ IsEvent(k)
            /\ outcomes[k].out.begin = StartInstant(k).m
            /\ outcomes[k].out.end = EndInstant(k).m

\* C8, amended: a row whose resolved end precedes its begin yields no event
\* (the calendar library's Event refuses the end and the row is skipped), and
\* no event of the collection or of the document ends before it begins.
C8_EndBeforeBeginSkipped ==
    /\ \A k \in DOMAIN outcomes :
        (TimedEndBeforeBegin(k) \/ AllDayEndBeforeBegin(k)) =>
            /\ ~IsEvent(k)
            /\ ~\E e \in events : e.uid = outcomes[k].uid
    /\ \A e \in events : e.begin <= e.end
    /\ \A a, b \in DOMAIN ics_result.doc :
        (/\ ics_result.doc[a].k = "DTSTART" /\ ics_result.doc[b].k = "DTEND"
         /\ ics_result.n = 1)
            => ics_result.doc[a].n <= ics_result.doc[b].n

\* A timed row whose end precedes its begin has been iterated and the
\* function has returned.
C8_Witness ==
    /\ Returned
    /\ \E k \in DOMAIN outcomes : TimedEndBeforeBegin(k)

MorningMessages == { <<"n","a","m","e"," ","'","m","o","r","n","i","n","g","'">>,
                     <<"M","o","r","n","i","n","g","_","s","h","i","f","t">> }

\* C9: when the conversion script raises, the request stops without any
\* download; a NameError whose message holds "morning" in any case shows the
\* surname-not-found error and no traceback, every other failure shows the
\* traceback and no surname-not-found error.
C9_FailuresDistinct ==
    raised.exc # "none" =>
        /\ pc = "stopped"
        /\ ~HasShown("download_button", "csv") /\ ~HasShown("download_button", "ics")
        /\ IF raised.exc = "NameError" /\ raised.msg \in MorningMessages
           THEN /\ ui[Len(ui)] = Shown("error", "surname_not_found", 0)
                /\ ~HasShown("exception", "traceback")
           ELSE /\ ui[Len(ui)] = Shown("exception", "traceback", 0)
                /\ ~HasShown("error", "surname_not_found")

\* The script raised a NameError that names "Morning" with a capital.
C9_Witness ==
    /\ raised.exc = "NameError"
    /\ raised.msg = <<"M","o","r","n","i","n","g","_","s","h","i","f","t">>
    /\ pc = "stopped"

IcsStarted == HasShown("download_button", "csv") /\ pc # "ics"

\* C10: nothing of the ICS generation exists before the CSV download is
\* offered, and the CSV download comes first on the page; when csv_text_to_ics
\* raises, the request goes on: a warning, no ICS download, the CSV download
\* still there, and the attempt to save the CSV copy made before the end.
C10_CsvFirstIcsContained ==
    /\ (pc \in {"ics", "ics_loop", "save", "done"} /\ run_btn) =>
            HasShown("download_button", "csv")
    /\ (df # NoFrame \/ Returned \/ HasShown("warning", "ics_failed")
           \/ HasShown("download_button", "ics")) =>
            HasShown("download_button", "csv")
    /\ \A a, b \in DOMAIN ui :
        (/\ ui[a] = Shown("download_button", "csv", 0)
         /\ ui[b].id \in {"ics", "ics_failed", "n_events", "no_events", "csv_saved"})
            => a < b
    /\ (IcsStarted /\ csv_text.columns = {}) =>
            /\ pc \in {"save", "done"}
            /\ HasShown("warning", "ics_failed")
            /\ ~HasShown("download_button", "ics")
            /\ ~HasShown("exception", "traceback")
            /\ ~Returned
            /\ pc = "done" => saved \in {"written", "failed"}

\* A request that ended with the CSV copy written although the ICS failed.
C10_Witness ==
    /\ pc = "done"
    /\ HasShown("warning", "ics_failed")
    /\ HasShown("download_button", "csv")
    /\ saved = "written"

====
